---- MODULE Spec2Model ----
(***************************************************************************)
(* A model of ai-services/chatbot/src/nlp/spacyProcessor.py: the command   *)
(* line run of main(), the construction of SpacyProcessor, process_text    *)
(* and its two helpers _analyze_sentiment and _extract_keywords.           *)
(*                                                                         *)
(* A Python str is a sequence of one-character strings, so that lower(),   *)
(* len() and the substring test `in` are computed character by character.  *)
(* The pretrained pipeline es_core_news_sm is outside the repository: its  *)
(* answer for a text is any document of Nlp(text), fixed once given.       *)
(***************************************************************************)
EXTENDS Integers, Sequences, FiniteSets, TLC

VARIABLES
    argv,            \* sys.argv: the script name, then the arguments
    modelInstalled,  \* whether es_core_news_sm can be loaded
    nlpMemo,         \* <<>>, or <<doc>>: what the installed model answers for argv[2]
    pc,              \* where main() is: "main", "load", "process", "print", "exited"
    nlpLoaded,       \* self.nlp is set (SpacyProcessor was constructed)
    loadCalls,       \* calls of spacy.load in this process
    processCalls,    \* calls of process_text in this process
    result,          \* <<>>, or <<r>>: the dict process_text returned
    stdout,          \* what this process printed, in order
    exitCode,        \* the exit status once pc = "exited"
    prevStdout       \* what the previous process of the same command line printed

vars == <<argv, modelInstalled, nlpMemo, pc, nlpLoaded, loadCalls, processCalls,
          result, stdout, exitCode, prevStdout>>

(***************************************************************************)
(* Bounds of the model.                                                    *)
(***************************************************************************)
MaxTokens == 3
MaxArgs == 2

(***************************************************************************)
(* Python str operations.                                                  *)
(***************************************************************************)
UpperChars == <<"A","B","C","D","E","F","G","H","I","J","K","L","M","N","O","P",
                "Q","R","S","T","U","V","W","X","Y","Z","Á","É","Í","Ó","Ú","Ñ">>
LowerChars == <<"a","b","c","d","e","f","g","h","i","j","k","l","m","n","o","p",
                "q","r","s","t","u","v","w","x","y","z","á","é","í","ó","ú","ñ">>

\* the lowercase letter of each uppercase letter
LowerOf ==
    [c \in {UpperChars[i] : i \in 1..Len(UpperChars)} |->
        LowerChars[CHOOSE i \in 1..Len(UpperChars) : UpperChars[i] = c]]

LowerChar(c) == IF c \in DOMAIN LowerOf THEN LowerOf[c] ELSE c

\* str.lower()
StrLower(s) == [i \in 1..Len(s) |-> LowerChar(s[i])]

\* `w in t` for two str
IsSubstring(w, t) ==
    \E i \in 1..(Len(t) - Len(w) + 1) : SubSeq(t, i, i + Len(w) - 1) = w

(***************************************************************************)
(* The external collaborator: spacy.load("es_core_news_sm") and the call   *)
(* self.nlp(text).  Vocabulary is what the pipeline assigns to each word   *)
(* of the texts the model runs on (lemma, coarse tag, flags, entity type   *)
(* and the label the word carries when it is not a root); the parser's     *)
(* choice of the root tokens is left open.                                 *)
(***************************************************************************)
Vocabulary == {
    [text |-> <<"B","u","e","n","o">>, lemma_ |-> <<"b","u","e","n","o">>,
     pos_ |-> "ADJ", tag_ |-> "ADJ", is_alpha |-> TRUE, is_stop |-> TRUE,
     is_punct |-> FALSE, dep_ |-> "amod", ent_type_ |-> ""],
    [text |-> <<"b","u","e","n","í","s","i","m","o">>, lemma_ |-> <<"b","u","e","n","o">>,
     pos_ |-> "ADJ", tag_ |-> "ADJ", is_alpha |-> TRUE, is_stop |-> FALSE,
     is_punct |-> FALSE, dep_ |-> "amod", ent_type_ |-> ""],
    [text |-> <<"m","a","l","o","g","r","a">>, lemma_ |-> <<"m","a","l","o","g","r","a","r">>,
     pos_ |-> "VERB", tag_ |-> "VERB", is_alpha |-> TRUE, is_stop |-> FALSE,
     is_punct |-> FALSE, dep_ |-> "ccomp", ent_type_ |-> ""],
    [text |-> <<"t","é","s">>, lemma_ |-> <<"t","é">>,
     pos_ |-> "NOUN", tag_ |-> "NOUN", is_alpha |-> TRUE, is_stop |-> FALSE,
     is_punct |-> FALSE, dep_ |-> "nsubj", ent_type_ |-> ""],
    [text |-> <<"T","V">>, lemma_ |-> <<"T","V">>,
     pos_ |-> "PROPN", tag_ |-> "PROPN", is_alpha |-> TRUE, is_stop |-> FALSE,
     is_punct |-> FALSE, dep_ |-> "obj", ent_type_ |-> "MISC"],
    [text |-> <<"P","e","r","f","e","c","t","o">>, lemma_ |-> <<"P","e","r","f","e","c","t","o">>,
     pos_ |-> "PROPN", tag_ |-> "PROPN", is_alpha |-> TRUE, is_stop |-> FALSE,
     is_punct |-> FALSE, dep_ |-> "nmod", ent_type_ |-> "ORG"],
    [text |-> <<".",".",".">>, lemma_ |-> <<".",".",".">>,
     pos_ |-> "PROPN", tag_ |-> "PROPN", is_alpha |-> FALSE, is_stop |-> FALSE,
     is_punct |-> TRUE, dep_ |-> "punct", ent_type_ |-> ""]
    }

Space == " "

RECURSIVE TextOf(_)
\* the text whose words are ws, separated by one space
TextOf(ws) ==
    IF ws = <<>> THEN <<>>
    ELSE IF Len(ws) = 1 THEN ws[1].text
    ELSE ws[1].text \o <<Space>> \o TextOf(Tail(ws))

WordSeqs == UNION {[1..n -> Vocabulary] : n \in 0..MaxTokens}

\* the texts a command line may carry
Texts == {TextOf(ws) : ws \in WordSeqs}

RECURSIVE Split(_)
\* the tokenizer: the words of a text, cut at the spaces
Split(t) ==
    IF t = <<>> THEN <<>>
    ELSE LET k == IF \E i \in 1..Len(t) : t[i] = Space
                  THEN CHOOSE i \in 1..Len(t) :
                          t[i] = Space /\ \A j \in 1..(i - 1) : t[j] # Space
                  ELSE Len(t) + 1
         IN  <<SubSeq(t, 1, k - 1)>> \o Split(SubSeq(t, k + 1, Len(t)))

Lexeme(w) == CHOOSE l \in Vocabulary : l.text = w

RECURSIVE Offset(_, _)
\* token.idx: the character offset of the i-th word (0-based, as in Python)
Offset(ws, i) == IF i = 1 THEN 0 ELSE Offset(ws, i - 1) + Len(ws[i - 1]) + 1

Dist(a, b) == IF a < b THEN b - a ELSE a - b

\* the head of a token that is no root: the nearest root, the left one on a tie
NearestRoot(i, roots) ==
    CHOOSE r \in roots : \A q \in roots :
        Dist(r, i) < Dist(q, i) \/ (Dist(r, i) = Dist(q, i) /\ r <= q)

\* the Doc for the words ws when the parser makes `roots` the sentence roots
MkDoc(t, ws, roots) ==
    LET tokens == [i \in 1..Len(ws) |->
            LET l == Lexeme(ws[i]) IN
            [text |-> l.text, lemma_ |-> l.lemma_, pos_ |-> l.pos_, tag_ |-> l.tag_,
             is_alpha |-> l.is_alpha, is_stop |-> l.is_stop, is_punct |-> l.is_punct,
             dep_ |-> IF i \in roots THEN "ROOT" ELSE l.dep_,
             head |-> IF i \in roots THEN i ELSE NearestRoot(i, roots),
             idx |-> Offset(ws, i),
             ent_type_ |-> l.ent_type_]]
        named == SelectSeq(tokens, LAMBDA tk : tk.ent_type_ # "")
    IN  [text |-> t,
         tokens |-> tokens,
         ents |-> [k \in 1..Len(named) |->
                    [text |-> named[k].text, label_ |-> named[k].ent_type_,
                     start_char |-> named[k].idx,
                     end_char |-> named[k].idx + Len(named[k].text)]]]

\* self.nlp(text): the documents the pipeline may answer for a text
Nlp(t) ==
    LET ws == Split(t)
        n == Len(ws)
    IN  {MkDoc(t, ws, roots) :
            roots \in {R \in SUBSET (1..n) : n > 0 => R # {}}}

(***************************************************************************)
(* SpacyProcessor._analyze_sentiment                                       *)
(***************************************************************************)
positive_words == <<
    <<"b","u","e","n","o">>,
    <<"e","x","c","e","l","e","n","t","e">>,
    <<"g","e","n","i","a","l">>,
    <<"p","e","r","f","e","c","t","o">>,
    <<"i","n","c","r","e","í","b","l","e">>,
    <<"f","a","n","t","á","s","t","i","c","o">>>>

negative_words == <<
    <<"m","a","l","o">>,
    <<"t","e","r","r","i","b","l","e">>,
    <<"h","o","r","r","i","b","l","e">>,
    <<"p","é","s","i","m","o">>,
    <<"d","e","f","i","c","i","e","n","t","e">>>>

RECURSIVE CountInOccurrences(_, _, _)
\* a variant that counts every occurrence of a word, not the word once
CountInOccurrences(words, text_lower, i) ==
    IF i = 0 THEN 0
    ELSE CountInOccurrences(words, text_lower, i - 1)
         + Cardinality({k \in 1..(Len(text_lower) - Len(words[i]) + 1) :
               SubSeq(text_lower, k, k + Len(words[i]) - 1) = words[i]})

RECURSIVE CountIn(_, _, _)
\* sum(1 for word in words[:i] if word in text_lower)
CountIn(words, text_lower, i) ==
    IF i = 0 THEN 0
    ELSE CountIn(words, text_lower, i - 1)
         + (IF IsSubstring(words[i], text_lower) THEN 1 ELSE 0)

AnalyzeSentiment(doc) ==
    LET text_lower == StrLower(doc.text)
        positive_count == CountIn(positive_words, text_lower, Len(positive_words))
        negative_count == CountIn(negative_words, text_lower, Len(negative_words))
    IN  IF positive_count > negative_count THEN "positive"
        ELSE IF negative_count > positive_count THEN "negative"
        ELSE "neutral"

(***************************************************************************)
(* SpacyProcessor._extract_keywords                                        *)
(***************************************************************************)
KeywordPos == {"NOUN", "ADJ", "PROPN"}

\* a variant without the stopword test
IsKeywordTokenNoStop(token) ==
    /\ token.pos_ \in KeywordPos
    /\ ~token.is_punct
    /\ Len(token.text) > 2

\* a variant without the length test
IsKeywordTokenNoLen(token) ==
    /\ token.pos_ \in KeywordPos
    /\ ~token.is_stop
    /\ ~token.is_punct

\* the condition of the if in the loop
IsKeywordToken(token) ==
    /\ token.pos_ \in KeywordPos
    /\ ~token.is_stop
    /\ ~token.is_punct
    /\ Len(token.text) > 2

RECURSIVE KeywordLoop(_, _)
\* the list `keywords` after the first i tokens of the loop
KeywordLoop(doc, i) ==
    IF i = 0 THEN <<>>
    ELSE IF IsKeywordToken(doc.tokens[i])
         THEN Append(KeywordLoop(doc, i - 1), StrLower(doc.tokens[i].lemma_))
         ELSE KeywordLoop(doc, i - 1)

Range(s) == {s[i] : i \in 1..Len(s)}

\* a variant that keeps only the first element the set yields: list(set(keywords))[:1]
ListOfSetFirst(keywords) ==
    {<<x>> : x \in Range(keywords)}

\* list(set(keywords)): the elements once each, in the order the set's hash table
\* yields them; str hashes are seeded afresh in every interpreter process, so any
\* order may come out.
ListOfSet(keywords) ==
    LET S == Range(keywords)
        k == Cardinality(S)
    IN  {l \in [1..k -> S] : \A i, j \in 1..k : i # j => l[i] # l[j]}

\* the lists _extract_keywords may return
ExtractKeywords(doc) == ListOfSet(KeywordLoop(doc, Len(doc.tokens)))

(***************************************************************************)
(* SpacyProcessor.process_text                                             *)
(***************************************************************************)
TokenRecord(token) ==
    [text |-> token.text, lemma |-> token.lemma_, pos |-> token.pos_,
     tag |-> token.tag_, is_alpha |-> token.is_alpha, is_stop |-> token.is_stop,
     is_punct |-> token.is_punct]

PosTagRecord(token) ==
    [text |-> token.text, pos |-> token.pos_, tag |-> token.tag_]

DependencyRecord(doc, token) ==
    [text |-> token.text, dep |-> token.dep_, head |-> doc.tokens[token.head].text]

EntityRecord(ent) ==
    [text |-> ent.text, label |-> ent.label_, start |-> ent.start_char,
     end |-> ent.end_char]

RECURSIVE TokenLoopPosInIf(_, _, _)
\* a variant with the pos_tags append indented under the ROOT test
TokenLoopPosInIf(doc, r, i) ==
    IF i = 0 THEN r
    ELSE LET q == TokenLoopPosInIf(doc, r, i - 1)
             token == doc.tokens[i]
         IN  [q EXCEPT
                !.tokens = Append(@, TokenRecord(token)),
                !.lemmas = Append(@, StrLower(token.lemma_)),
                !.pos_tags = IF token.dep_ # "ROOT"
                             THEN Append(@, PosTagRecord(token))
                             ELSE @,
                !.dependencies = IF token.dep_ # "ROOT"
                                 THEN Append(@, DependencyRecord(doc, token))
                                 ELSE @]

RECURSIVE TokenLoopNoRootTest(_, _, _)
\* a variant without the ROOT test
TokenLoopNoRootTest(doc, r, i) ==
    IF i = 0 THEN r
    ELSE LET q == TokenLoopNoRootTest(doc, r, i - 1)
             token == doc.tokens[i]
         IN  [q EXCEPT
                !.tokens = Append(@, TokenRecord(token)),
                !.lemmas = Append(@, StrLower(token.lemma_)),
                !.pos_tags = Append(@, PosTagRecord(token)),
                !.dependencies = Append(@, DependencyRecord(doc, token))]

RECURSIVE TokenLoopInsertFront(_, _, _)
\* a variant that puts each dependency at the front: insert(0, ...)
TokenLoopInsertFront(doc, r, i) ==
    IF i = 0 THEN r
    ELSE LET q == TokenLoopInsertFront(doc, r, i - 1)
             token == doc.tokens[i]
         IN  [q EXCEPT
                !.tokens = Append(@, TokenRecord(token)),
                !.lemmas = Append(@, StrLower(token.lemma_)),
                !.pos_tags = Append(@, PosTagRecord(token)),
                !.dependencies = IF token.dep_ # "ROOT"
                                 THEN <<DependencyRecord(doc, token)>> \o @
                                 ELSE @]

RECURSIVE TokenLoop(_, _, _)
\* result after the first i rounds of `for token in doc`
TokenLoop(doc, r, i) ==
    IF i = 0 THEN r
    ELSE LET q == TokenLoop(doc, r, i - 1)
             token == doc.tokens[i]
         IN  [q EXCEPT
                !.tokens = Append(@, TokenRecord(token)),
                !.lemmas = Append(@, StrLower(token.lemma_)),
                !.pos_tags = Append(@, PosTagRecord(token)),
                !.dependencies = IF token.dep_ # "ROOT"
                                 THEN Append(@, DependencyRecord(doc, token))
                                 ELSE @]

RECURSIVE EntLoop(_, _, _)
\* result after the first i rounds of `for ent in doc.ents`
EntLoop(doc, r, i) ==
    IF i = 0 THEN r
    ELSE [EntLoop(doc, r, i - 1) EXCEPT
            !.entities = Append(@, EntityRecord(doc.ents[i]))]

\* the dicts process_text may return for a Doc
ProcessTextResults(doc) ==
    {EntLoop(doc,
             TokenLoop(doc,
                       [tokens |-> <<>>, entities |-> <<>>, pos_tags |-> <<>>,
                        dependencies |-> <<>>, lemmas |-> <<>>,
                        sentiment |-> AnalyzeSentiment(doc), keywords |-> kw],
                       Len(doc.tokens)),
             Len(doc.ents)) : kw \in ExtractKeywords(doc)}

(***************************************************************************)
(* main() and SpacyProcessor.__init__, one process per command line.       *)
(***************************************************************************)
Script == <<"s","p","a","c","y","P","r","o","c","e","s","s","o","r",".","p","y">>

Line(kind, docs) == [kind |-> kind, json |-> docs]

UsageLine == Line("usage", <<>>)
RemediationLine == Line("remediation", <<>>)

Init ==
    /\ \E t \in Texts, n \in 0..MaxArgs : argv = <<Script>> \o [i \in 1..n |-> t]
    /\ modelInstalled \in BOOLEAN
    /\ nlpMemo = <<>>
    /\ pc = "main"
    /\ nlpLoaded = FALSE
    /\ loadCalls = 0
    /\ processCalls = 0
    /\ result = <<>>
    /\ stdout = <<>>
    /\ exitCode = 0
    /\ prevStdout = <<>>

\* main: len(sys.argv) != 2: the usage message, sys.exit(1)
MainUsage ==
    /\ pc = "main"
    /\ Len(argv) # 2
    /\ stdout' = Append(stdout, UsageLine)
    /\ exitCode' = 1
    /\ pc' = "exited"
    /\ UNCHANGED <<argv, modelInstalled, nlpMemo, nlpLoaded, loadCalls, processCalls,
                   result, prevStdout>>

\* a variant that tests len(sys.argv) < 2
MainArgsOkAtLeast ==
    /\ pc = "main"
    /\ Len(argv) >= 2
    /\ pc' = "load"
    /\ UNCHANGED <<argv, modelInstalled, nlpMemo, nlpLoaded, loadCalls, processCalls,
                   result, stdout, exitCode, prevStdout>>

\* main: the argument count is right; text = sys.argv[1]
MainArgsOk ==
    /\ pc = "main"
    /\ Len(argv) = 2
    /\ pc' = "load"
    /\ UNCHANGED <<argv, modelInstalled, nlpMemo, nlpLoaded, loadCalls, processCalls,
                   result, stdout, exitCode, prevStdout>>

\* SpacyProcessor(): spacy.load succeeds
LoadModel ==
    /\ pc = "load"
    /\ modelInstalled
    /\ loadCalls' = loadCalls + 1
    /\ nlpLoaded' = TRUE
    /\ pc' = "process"
    /\ UNCHANGED <<argv, modelInstalled, nlpMemo, processCalls, result, stdout,
                   exitCode, prevStdout>>

\* a variant without the sys.exit(1) of the except branch
LoadModelFailNoExit ==
    /\ pc = "load"
    /\ ~modelInstalled
    /\ loadCalls' = loadCalls + 1
    /\ stdout' = Append(stdout, RemediationLine)
    /\ pc' = "process"
    /\ UNCHANGED <<argv, modelInstalled, nlpMemo, nlpLoaded, processCalls, result,
                   exitCode, prevStdout>>

\* a variant in which the processor is constructed before the argument count is
\* tested
LoadModelFailFirst ==
    /\ pc \in {"main", "load"}
    /\ ~modelInstalled
    /\ loadCalls' = loadCalls + 1
    /\ stdout' = Append(stdout, RemediationLine)
    /\ exitCode' = 1
    /\ pc' = "exited"
    /\ UNCHANGED <<argv, modelInstalled, nlpMemo, nlpLoaded, processCalls, result,
                   prevStdout>>

\* SpacyProcessor(): spacy.load raises OSError: the remediation message, sys.exit(1)
LoadModelFail ==
    /\ pc = "load"
    /\ ~modelInstalled
    /\ loadCalls' = loadCalls + 1
    /\ stdout' = Append(stdout, RemediationLine)
    /\ exitCode' = 1
    /\ pc' = "exited"
    /\ UNCHANGED <<argv, modelInstalled, nlpMemo, nlpLoaded, processCalls, result,
                   prevStdout>>

\* result = processor.process_text(text)
ProcessText ==
    /\ pc = "process"
    /\ nlpLoaded
    /\ \E doc \in (IF nlpMemo = <<>> THEN Nlp(argv[2]) ELSE {nlpMemo[1]}) :
         /\ nlpMemo' = <<doc>>
         /\ \E r \in ProcessTextResults(doc) : result' = <<r>>
    /\ processCalls' = processCalls + 1
    /\ pc' = "print"
    /\ UNCHANGED <<argv, modelInstalled, nlpLoaded, loadCalls, stdout, exitCode,
                   prevStdout>>

\* print(json.dumps(result, ...)), and main returns: exit status 0
PrintJson ==
    /\ pc = "print"
    /\ stdout' = Append(stdout, Line("json", result))
    /\ exitCode' = 0
    /\ pc' = "exited"
    /\ UNCHANGED <<argv, modelInstalled, nlpMemo, nlpLoaded, loadCalls, processCalls,
                   result, prevStdout>>

\* the same command line is run again: a new interpreter process, the same
\* installation
Rerun ==
    /\ pc = "exited"
    /\ prevStdout' = stdout
    /\ pc' = "main"
    /\ nlpLoaded' = FALSE
    /\ loadCalls' = 0
    /\ processCalls' = 0
    /\ result' = <<>>
    /\ stdout' = <<>>
    /\ exitCode' = 0
    /\ UNCHANGED <<argv, modelInstalled, nlpMemo>>

Next ==
    \/ MainUsage
    \/ MainArgsOk
    \/ LoadModel
    \/ LoadModelFail
    \/ ProcessText
    \/ PrintJson
    \/ Rerun

Spec == Init /\ [][Next]_vars

(***************************************************************************)
(* What the properties below read from a state.                            *)
(***************************************************************************)
Returned == result # <<>>
TheDoc == nlpMemo[1]
TheResult == result[1]

JsonLines(out) == {i \in 1..Len(out) : out[i].kind = "json"}
Emitted(out) == JsonLines(out) # {}
JsonOf(out) == out[CHOOSE i \in JsonLines(out) : TRUE].json[1]

NonRoot(doc) == {i \in 1..Len(doc.tokens) : doc.tokens[i].dep_ # "ROOT"}
Roots(doc) == {i \in 1..Len(doc.tokens) : doc.tokens[i].dep_ = "ROOT"}

\* the dependency record the specification asks for the i-th token
DepOf(doc, i) ==
    [text |-> doc.tokens[i].text, dep |-> doc.tokens[i].dep_,
     head |-> doc.tokens[doc.tokens[i].head].text]

\* the lexicon words (given as a set) that occur in the lowercased text
Occurring(lexicon, doc) ==
    LET lowered == StrLower(doc.text) IN {w \in lexicon : IsSubstring(w, lowered)}

\* the tokens the keyword filter of the specification selects
Selected(doc) ==
    {i \in 1..Len(doc.tokens) :
        /\ doc.tokens[i].pos_ \in {"NOUN", "ADJ", "PROPN"}
        /\ doc.tokens[i].is_stop = FALSE
        /\ doc.tokens[i].is_punct = FALSE
        /\ Len(doc.tokens[i].text) >= 3}

LowerLemma(doc, i) == StrLower(doc.tokens[i].lemma_)

(***************************************************************************)
(* C1: for a non-empty input text, tokens, pos_tags and lemmas of the      *)
(* result have the same length, the number of tokens of the model's        *)
(* document.                                                               *)
(***************************************************************************)
C1_EqualLengths ==
    (Returned /\ argv[2] # <<>>) =>
        /\ Len(TheResult.tokens) = Len(TheDoc.tokens)
        /\ Len(TheResult.pos_tags) = Len(TheDoc.tokens)
        /\ Len(TheResult.lemmas) = Len(TheDoc.tokens)

C1_Witness ==
    /\ Returned
    /\ Len(TheDoc.tokens) >= 2
    /\ Roots(TheDoc) # {}
    /\ NonRoot(TheDoc) # {}

(***************************************************************************)
(* C2: dependencies holds exactly one record (text, dep, head's text) for  *)
(* each token whose role is not ROOT and none for a ROOT token; its length *)
(* is the token count minus the number of ROOT tokens.                     *)
(***************************************************************************)
C2_Dependencies ==
    Returned =>
        LET deps == TheResult.dependencies IN
        /\ Len(deps) = Len(TheDoc.tokens) - Cardinality(Roots(TheDoc))
        /\ \A k \in 1..Len(deps) : deps[k].dep # "ROOT"
        /\ \A i \in NonRoot(TheDoc) :
              Cardinality({k \in 1..Len(deps) : deps[k] = DepOf(TheDoc, i)})
              = Cardinality({j \in NonRoot(TheDoc) : DepOf(TheDoc, j) = DepOf(TheDoc, i)})

C2_Witness ==
    /\ Returned
    /\ Cardinality(Roots(TheDoc)) >= 2
    /\ NonRoot(TheDoc) # {}
    /\ Len(TheResult.dependencies) = Cardinality(NonRoot(TheDoc))

(***************************************************************************)
(* C3: the sentiment label comes from the lowercased text: each lexicon    *)
(* word counts once if it occurs as a substring; positive iff the positive *)
(* count is strictly greater, negative iff the negative count is strictly  *)
(* greater, neutral on every tie.                                          *)
(***************************************************************************)
C3_Sentiment ==
    Returned =>
        LET p == Cardinality(Occurring(Range(positive_words), TheDoc))
            n == Cardinality(Occurring(Range(negative_words), TheDoc))
        IN  /\ (TheResult.sentiment = "positive") <=> (p > n)
            /\ (TheResult.sentiment = "negative") <=> (n > p)
            /\ (TheResult.sentiment = "neutral") <=> (p = n)

\* a positive word twice (once capitalised) against a negative word inside a longer one
C3_Witness ==
    /\ Returned
    /\ Cardinality(Occurring(Range(positive_words), TheDoc)) = 1
    /\ Cardinality(Occurring(Range(negative_words), TheDoc)) = 1
    /\ Cardinality({i \in 1..Len(TheDoc.tokens) :
            StrLower(TheDoc.tokens[i].text) \in Range(positive_words)}) >= 2
    /\ TheResult.sentiment = "neutral"

(***************************************************************************)
(* C4: keywords are exactly the lowercased lemmas of the tokens that are   *)
(* NOUN, ADJ or PROPN, no stopword, no punctuation and longer than 2       *)
(* characters: each of them, nothing else, none twice.                     *)
(***************************************************************************)
C4_Keywords ==
    Returned =>
        /\ Range(TheResult.keywords) = {LowerLemma(TheDoc, i) : i \in Selected(TheDoc)}
        /\ \A i, j \in 1..Len(TheResult.keywords) :
              i # j => TheResult.keywords[i] # TheResult.keywords[j]

\* two selected tokens share a lemma, and a stopword is left out
C4_Witness ==
    /\ Returned
    /\ Cardinality(Selected(TheDoc)) > Len(TheResult.keywords)
    /\ \E i \in 1..Len(TheDoc.tokens) : TheDoc.tokens[i].is_stop
    /\ TheResult.keywords # <<>>

(***************************************************************************)
(* C5 as stated: keywords is a subset of the lowercased lemmas of the      *)
(* tokens and has no entry shorter than 3 characters, no entry that is the *)
(* lemma of a stopword token, none that is the lemma of a punctuation      *)
(* token.                                                                  *)
(***************************************************************************)
C5_AsStated ==
    Returned =>
        \A kw \in Range(TheResult.keywords) :
            /\ \E i \in 1..Len(TheDoc.tokens) : kw = LowerLemma(TheDoc, i)
            /\ Len(kw) >= 3
            /\ \A i \in 1..Len(TheDoc.tokens) :
                  (TheDoc.tokens[i].is_stop \/ TheDoc.tokens[i].is_punct)
                      => kw # LowerLemma(TheDoc, i)

(***************************************************************************)
(* C5: keywords is a subset of the lowercased lemmas of the tokens, and    *)
(* every entry is the lemma of a token whose surface text has at least 3   *)
(* characters and that is neither a stopword nor punctuation.              *)
(***************************************************************************)
C5_Keywords ==
    Returned =>
        \A kw \in Range(TheResult.keywords) :
            \E i \in 1..Len(TheDoc.tokens) :
                /\ kw = LowerLemma(TheDoc, i)
                /\ Len(TheDoc.tokens[i].text) >= 3
                /\ ~TheDoc.tokens[i].is_stop
                /\ ~TheDoc.tokens[i].is_punct

\* a keyword of 2 characters, and a keyword that is also a stopword's lemma
C5_Witness ==
    /\ Returned
    /\ \E kw \in Range(TheResult.keywords) : Len(kw) < 3
    /\ \E kw \in Range(TheResult.keywords) :
          \E i \in 1..Len(TheDoc.tokens) :
              TheDoc.tokens[i].is_stop /\ kw = LowerLemma(TheDoc, i)

(***************************************************************************)
(* C6: with any number of arguments other than one, the run prints the     *)
(* usage message, ends with exit status 1 and never emits the JSON         *)
(* document.                                                               *)
(***************************************************************************)
C6_WrongArgCount ==
    Len(argv) # 2 =>
        /\ ~Emitted(stdout)
        /\ pc \in {"main", "exited"}
        /\ pc = "main" => stdout = <<>>
        /\ pc = "exited" => (stdout = <<UsageLine>> /\ exitCode # 0)

C6_Witness ==
    /\ Len(argv) > 2
    /\ pc = "exited"
    /\ stdout = <<UsageLine>>

(***************************************************************************)
(* C7: with one argument and no loadable model, the run prints the         *)
(* remediation message, ends with a non-zero exit status, never calls      *)
(* process_text and never emits the JSON document.                         *)
(***************************************************************************)
C7_ModelAbsent ==
    (Len(argv) = 2 /\ ~modelInstalled) =>
        /\ processCalls = 0
        /\ ~Returned
        /\ ~Emitted(stdout)
        /\ pc \in {"main", "load", "exited"}
        /\ pc # "exited" => stdout = <<>>
        /\ pc = "exited" => (stdout = <<RemediationLine>> /\ exitCode # 0)

C7_Witness ==
    /\ Len(argv) = 2
    /\ ~modelInstalled
    /\ pc = "exited"
    /\ stdout = <<RemediationLine>>

(***************************************************************************)
(* C8 as stated: two calls of process_text with the same text, model and   *)
(* lexicons give the same output in every field, the keywords array        *)
(* included.                                                               *)
(***************************************************************************)
C8_AsStated ==
    (Emitted(stdout) /\ Emitted(prevStdout)) => JsonOf(stdout) = JsonOf(prevStdout)

(***************************************************************************)
(* C8: two calls of process_text with the same text, model and lexicons    *)
(* give the same output in every field but the order of keywords: the two  *)
(* keywords arrays hold the same strings, each once.                       *)
(***************************************************************************)
C8_Deterministic ==
    (Emitted(stdout) /\ Emitted(prevStdout)) =>
        LET a == JsonOf(prevStdout)
            b == JsonOf(stdout)
        IN  /\ [b EXCEPT !.keywords = <<>>] = [a EXCEPT !.keywords = <<>>]
            /\ Range(b.keywords) = Range(a.keywords)
            /\ Len(b.keywords) = Len(a.keywords)

\* the two runs emit the keywords in different orders
C8_Witness ==
    /\ Emitted(stdout)
    /\ Emitted(prevStdout)
    /\ JsonOf(stdout).keywords # JsonOf(prevStdout).keywords
    /\ JsonOf(stdout).tokens # <<>>

(***************************************************************************)
(* C9: process_text keeps the document's order: the i-th token record,     *)
(* pos_tags record and lemma describe the i-th token; the dependency       *)
(* records follow the order of their non-ROOT tokens; the i-th entity      *)
(* record describes the i-th entity span.                                  *)
(***************************************************************************)
C9_Order ==
    Returned =>
        LET r == TheResult
            doc == TheDoc
        IN  /\ \A i \in 1..Len(doc.tokens) :
                  /\ i <= Len(r.tokens)
                  /\ r.tokens[i] =
                        [text |-> doc.tokens[i].text, lemma |-> doc.tokens[i].lemma_,
                         pos |-> doc.tokens[i].pos_, tag |-> doc.tokens[i].tag_,
                         is_alpha |-> doc.tokens[i].is_alpha,
                         is_stop |-> doc.tokens[i].is_stop,
                         is_punct |-> doc.tokens[i].is_punct]
                  /\ i <= Len(r.pos_tags)
                  /\ r.pos_tags[i] =
                        [text |-> doc.tokens[i].text, pos |-> doc.tokens[i].pos_,
                         tag |-> doc.tokens[i].tag_]
                  /\ i <= Len(r.lemmas)
                  /\ r.lemmas[i] = LowerLemma(doc, i)
            /\ \A i \in NonRoot(doc) :
                  LET k == Cardinality({j \in NonRoot(doc) : j <= i}) IN
                  /\ k <= Len(r.dependencies)
                  /\ r.dependencies[k] = DepOf(doc, i)
            /\ Len(r.entities) = Len(doc.ents)
            /\ \A i \in 1..Len(doc.ents) :
                  r.entities[i] =
                      [text |-> doc.ents[i].text, label |-> doc.ents[i].label_,
                       start |-> doc.ents[i].start_char, end |-> doc.ents[i].end_char]

\* two different dependency records and two different entities, in order
C9_Witness ==
    /\ Returned
    /\ Len(TheResult.dependencies) >= 2
    /\ TheResult.dependencies[1] # TheResult.dependencies[2]
    /\ Len(TheResult.entities) >= 2
    /\ TheResult.entities[1].text # TheResult.entities[2].text
    /\ TheResult.entities[1].start < TheResult.entities[2].start

(***************************************************************************)
(* C10: a run goes argument-count check, model load, process_text, JSON    *)
(* output: the load is attempted only once the check has passed (a wrong   *)
(* count with an absent model prints the usage message, not the            *)
(* remediation message), and the JSON document is written at most once,    *)
(* after the check and the load have succeeded.                            *)
(***************************************************************************)
C10_StepOrder ==
    /\ loadCalls > 0 => Len(argv) = 2
    /\ (Len(argv) # 2 /\ pc = "exited") => stdout = <<UsageLine>>
    /\ processCalls > 0 => (nlpLoaded /\ loadCalls = 1)
    /\ Returned => processCalls = 1
    /\ Cardinality(JsonLines(stdout)) <= 1
    /\ Emitted(stdout) =>
          /\ Len(argv) = 2
          /\ nlpLoaded
          /\ Returned
          /\ stdout = <<Line("json", result)>>

C10_Witness ==
    /\ Len(argv) # 2
    /\ ~modelInstalled
    /\ pc = "exited"
    /\ stdout = <<UsageLine>>
    /\ loadCalls = 0

====
